---- MODULE Spec2Model ----
(***************************************************************************)
(* Model of src/libImaging/Antialias.c: the horizontal resampling          *)
(* primitive ImagingStretchHorizaontal and the two-pass resize             *)
(* ImagingStretch built on it.                                             *)
(*                                                                         *)
(* C float quantities are modelled as exact rationals <<n, d>> (d > 0, in  *)
(* lowest terms); sin() is modelled by a rational approximation quantised  *)
(* to 1/FQ.                                                                *)
(***************************************************************************)
EXTENDS Integers, Sequences, FiniteSets, TLC

\* ---------------------------------------------------------------- bounds
MaxLen == 8      \* largest row length of a direct horizontal call
MaxRows == 1     \* largest row count of a direct horizontal call
MaxDim == 3      \* largest width/height of a two-pass resize
FQ == 256        \* resolution of the sin() approximation
MaxFilterTag == 4  \* largest filter tag passed by a caller

\* ------------------------------------------------------- rational numbers
Abs(n) == IF n < 0 THEN -n ELSE n

RECURSIVE GCD(_, _)
GCD(a, b) == IF b = 0 THEN a ELSE GCD(b, a % b)

R(n, d) ==
    LET g == GCD(Abs(n), Abs(d))
        s == IF d < 0 THEN -1 ELSE 1
    IN  <<(s * n) \div g, (s * d) \div g>>

RInt(n) == <<n, 1>>
RZero == <<0, 1>>
ROne == <<1, 1>>
RHalf == <<1, 2>>

RAdd(p, q) ==
    LET g == GCD(p[2], q[2])
    IN  R(p[1] * (q[2] \div g) + q[1] * (p[2] \div g), (p[2] \div g) * q[2])

RNeg(p) == <<-p[1], p[2]>>
RSub(p, q) == RAdd(p, RNeg(q))

RMul(p, q) ==
    LET g1 == GCD(Abs(p[1]), q[2])
        g2 == GCD(Abs(q[1]), p[2])
    IN  <<(p[1] \div g1) * (q[1] \div g2), (p[2] \div g2) * (q[2] \div g1)>>

RInv(p) == IF p[1] < 0 THEN <<-p[2], -p[1]>> ELSE <<p[2], p[1]>>

RLt(p, q) == p[1] * q[2] < q[1] * p[2]
RLe(p, q) == p[1] * q[2] <= q[1] * p[2]

\* floor(), ceil() of <math.h>, and the C conversion (int) x (towards zero)
RFloor(p) == p[1] \div p[2]
RCeil(p) == -((-p[1]) \div p[2])
RTrunc(p) == IF p[1] >= 0 THEN p[1] \div p[2] ELSE -((-p[1]) \div p[2])

\* ------------------------------------------------------ resampling filters
IMAGING_TRANSFORM_NEAREST == 0
IMAGING_TRANSFORM_ANTIALIAS == 1
IMAGING_TRANSFORM_BILINEAR == 2
IMAGING_TRANSFORM_BICUBIC == 3

\* sin(pi * u) for 0 <= u <= 1 (Bhaskara I), quantised to 1/FQ
SinPiUnit(u) ==
    LET n == u[1]
        d == u[2]
        m == n * (d - n)
    IN  R((16 * m * FQ) \div (5 * d * d - 4 * m), FQ)

\* sin(pi * x) for any x: odd, period 2
SinPi(x) ==
    LET a == IF x[1] < 0 THEN RNeg(x) ELSE x
        f == RFloor(a)
        u == RSub(a, RInt(f))
        v == IF f % 2 = 0 THEN SinPiUnit(u) ELSE RNeg(SinPiUnit(u))
    IN  IF x[1] < 0 THEN RNeg(v) ELSE v

\* 1 / pi, as 113 / 355
InvPi == <<113, 355>>

Quant(p) == R((p[1] * FQ) \div p[2], FQ)

sinc_filter(x) ==
    IF x[1] = 0 THEN ROne
    ELSE Quant(RMul(RMul(SinPi(x), InvPi), RInv(x)))

antialias_filter(x) ==
    IF RLe(RInt(-3), x) /\ RLt(x, RInt(3))
    THEN Quant(RMul(sinc_filter(x), sinc_filter(RMul(x, <<1, 3>>))))
    ELSE RZero

nearest_filter(x) ==
    IF RLe(<<-1, 2>>, x) /\ RLt(x, RHalf) THEN ROne ELSE RZero

bilinear_filter(x) ==
    LET y == IF RLt(x, RZero) THEN RNeg(x) ELSE x
    IN  IF RLt(y, ROne) THEN RSub(ROne, y) ELSE RZero

\* a = -0.5
bicubic_filter(x) ==
    LET y == IF RLt(x, RZero) THEN RNeg(x) ELSE x
        yy == RMul(y, y)
    IN  IF RLt(y, ROne)
        THEN RAdd(RMul(RSub(RMul(<<3, 2>>, y), <<5, 2>>), yy), ROne)
        ELSE IF RLt(y, RInt(2))
        THEN RMul(RSub(RMul(RAdd(RMul(RSub(y, RInt(5)), y), RInt(8)), y), RInt(4)),
                  <<-1, 2>>)
        ELSE RZero

FilterSupport(f) ==
    CASE f = IMAGING_TRANSFORM_NEAREST -> RHalf
      [] f = IMAGING_TRANSFORM_ANTIALIAS -> RInt(3)
      [] f = IMAGING_TRANSFORM_BILINEAR -> ROne
      [] f = IMAGING_TRANSFORM_BICUBIC -> RInt(2)

FilterEval(f, x) ==
    CASE f = IMAGING_TRANSFORM_NEAREST -> nearest_filter(x)
      [] f = IMAGING_TRANSFORM_ANTIALIAS -> antialias_filter(x)
      [] f = IMAGING_TRANSFORM_BILINEAR -> bilinear_filter(x)
      [] f = IMAGING_TRANSFORM_BICUBIC -> bicubic_filter(x)

\* --------------------------------------------------- coefficient planning
\* scale = (float) imIn->xsize / imOut->xsize
Scale(inx, outx) == R(inx, outx)

\* if (filterscale < 1.0) filterscale = 1.0
FilterScale(scale) == IF RLt(scale, ROne) THEN ROne ELSE scale

\* support = filterp->support * filterscale
Support(f, filterscale) == RMul(FilterSupport(f), filterscale)

\* variant of KMax without the extra coefficient
KMax_NoMargin(support) == RCeil(support) * 2

\* kmax = (int) ceil(support) * 2 + 1
KMax(support) == RCeil(support) * 2 + 1

\* center = (xx + 0.5) * scale
Center(xx, scale) == RMul(R(2 * xx + 1, 2), scale)

\* xmin = floor(center - support), clamped at 0
XMin(center, support) ==
    LET v == RFloor(RSub(center, support))
    IN  IF v < 0 THEN 0 ELSE v

\* variant of XMax that does not clamp at the row length
XMax_Unclamped(center, support, inx) == RCeil(RAdd(center, support))

\* xmax = ceil(center + support), clamped at imIn->xsize
XMax(center, support, inx) ==
    LET v == RCeil(RAdd(center, support))
    IN  IF v > inx THEN inx ELSE v

\* w = filterp->filter((x - center + 0.5) * ss) * ss
Weight(f, x, center, ss) ==
    RMul(FilterEval(f, RMul(RAdd(RSub(RInt(x), center), RHalf), ss)), ss)

\* ww accumulated over [xmin, xmax), then ww = (ww == 0.0) ? 1.0 : 1.0 / ww
WeightSum(f, center, ss, xmin, xmax) ==
    LET acc[x \in xmin..xmax] ==
            IF x = xmin THEN RZero
            ELSE RAdd(acc[x - 1], Weight(f, x - 1, center, ss))
    IN  IF xmax <= xmin THEN RZero ELSE acc[xmax]

Norm(ww) == IF ww[1] = 0 THEN ROne ELSE RInv(ww)

\* ------------------------------------------------------------------ images
NULL == "NULL"

IMAGING_TYPE_UINT8 == "UINT8"
IMAGING_TYPE_INT32 == "INT32"
IMAGING_TYPE_FLOAT32 == "FLOAT32"
IMAGING_TYPE_SPECIAL == "SPECIAL"

\* mode -> storage layout (image8 alias set, pixel type, bands)
ModeInfo(mode) ==
    CASE mode = "L" -> [image8 |-> TRUE, type |-> IMAGING_TYPE_UINT8, bands |-> 1]
      [] mode = "P" -> [image8 |-> TRUE, type |-> IMAGING_TYPE_UINT8, bands |-> 1]
      [] mode = "1" -> [image8 |-> TRUE, type |-> IMAGING_TYPE_UINT8, bands |-> 1]
      [] mode = "LA" -> [image8 |-> FALSE, type |-> IMAGING_TYPE_UINT8, bands |-> 2]
      [] mode = "RGB" -> [image8 |-> FALSE, type |-> IMAGING_TYPE_UINT8, bands |-> 3]
      [] mode = "I" -> [image8 |-> FALSE, type |-> IMAGING_TYPE_INT32, bands |-> 1]
      [] mode = "F" -> [image8 |-> FALSE, type |-> IMAGING_TYPE_FLOAT32, bands |-> 1]
      [] mode = "BGR;32" ->
            [image8 |-> FALSE, type |-> IMAGING_TYPE_SPECIAL, bands |-> 1]

Modes == {"L", "P", "1", "LA", "RGB", "I", "F", "BGR;32"}

\* storage cells per pixel in a row: 1, or 4 byte lanes for packed 8-bit pixels
Stride(mode) ==
    IF ModeInfo(mode).image8 THEN 1
    ELSE IF ModeInfo(mode).type \in {IMAGING_TYPE_UINT8, IMAGING_TYPE_SPECIAL} THEN 4
    ELSE 1

\* pixel contents used for the images handed to the entry points
FlatValue == 10
DstFill == 7
Patterns == {"flat", "ramp"}

\* cell value of pixel (x, y): source patterns, the destination's initial
\* fill, and the zero fill of a new image
PatternCell(pattern, x, y) ==
    CASE pattern = "flat" -> RInt(FlatValue)
      [] pattern = "ramp" -> RInt(10 * (x + 1) + y)
      [] pattern = "dst" -> RInt(DstFill)
      [] pattern = "zero" -> RZero

MakeData(mode, xsize, ysize, pattern) ==
    [y \in 0..(ysize - 1) |->
        [i \in 0..(xsize * Stride(mode) - 1) |-> PatternCell(pattern, i \div Stride(mode), y)]]

MakeImage(mode, xsize, ysize, pattern) ==
    [state |-> "live", deleted |-> 0, mode |-> mode, xsize |-> xsize,
     ysize |-> ysize, data |-> MakeData(mode, xsize, ysize, pattern)]

NoImage ==
    [state |-> "none", deleted |-> 0, mode |-> "", xsize |-> 0, ysize |-> 0,
     data |-> <<>>]

\* ImagingNew(mode, xsize, ysize) on success
ImagingNew(mode, xsize, ysize) == MakeImage(mode, xsize, ysize, "zero")

ImgIds == {"src", "dst", "t1", "t2", "t3"}
TempIds == {"t1", "t2", "t3"}

\* ------------------------------------------------------ weighted reduction
\* ss = ss + pixel(x) * k[x - (int) xmin], for x in [xmin, xmax)
WSum(row, stride, b, xmin, xmax, coef) ==
    LET acc[x \in xmin..xmax] ==
            IF x = xmin THEN RZero
            ELSE RAdd(acc[x - 1],
                      RMul(row[(x - 1) * stride + b], coef[x - 1 - xmin]))
    IN  IF xmax <= xmin THEN RZero ELSE acc[xmax]

\* variant of Finalize8 without the 0.5 rounding bias
Finalize8_Truncating(sum, ww) ==
    LET ss == RMul(sum, ww)
    IN  IF RLt(ss, RHalf) THEN 0
        ELSE IF RLe(RInt(255), ss) THEN 255
        ELSE RTrunc(ss)

\* ss = ss * ww + 0.5; clip to 0..255, else (UINT8) ss
Finalize8(sum, ww) ==
    LET ss == RAdd(RMul(sum, ww), RHalf)
    IN  IF RLt(ss, RHalf) THEN 0
        ELSE IF RLe(RInt(255), ss) THEN 255
        ELSE RTrunc(ss)

\* IMAGING_PIXEL_I(imOut, xx, yy) = (int) ss * ww
FinalizeI(sum, ww) == RTrunc(RMul(RInt(RTrunc(sum)), ww))

\* IMAGING_PIXEL_F(imOut, xx, yy) = ss * ww
FinalizeF(sum, ww) == RMul(sum, ww)

\* bands visited by the b loop ("hack to deal with LA images")
Lanes(bands) == IF bands = 2 THEN {0, 3} ELSE 0..(bands - 1)

SupportedFormat(info) ==
    \/ info.image8
    \/ info.type \in {IMAGING_TYPE_UINT8, IMAGING_TYPE_INT32, IMAGING_TYPE_FLOAT32}

\* the destination rows after column xx has been written
ReduceData(dout, din, info, xx, xmin, xmax, coef, ww) ==
    [y \in DOMAIN dout |->
        [i \in DOMAIN dout[y] |->
            IF info.image8
            THEN IF i = xx
                 THEN RInt(Finalize8(WSum(din[y], 1, 0, xmin, xmax, coef), ww))
                 ELSE dout[y][i]
            ELSE IF info.type = IMAGING_TYPE_UINT8
            THEN IF i \div 4 = xx /\ (i % 4) \in Lanes(info.bands)
                 THEN RInt(Finalize8(WSum(din[y], 4, i % 4, xmin, xmax, coef), ww))
                 ELSE dout[y][i]
            ELSE IF info.type = IMAGING_TYPE_INT32
            THEN IF i = xx
                 THEN RInt(FinalizeI(WSum(din[y], 1, 0, xmin, xmax, coef), ww))
                 ELSE dout[y][i]
            ELSE IF info.type = IMAGING_TYPE_FLOAT32
            THEN IF i = xx
                 THEN FinalizeF(WSum(din[y], 1, 0, xmin, xmax, coef), ww)
                 ELSE dout[y][i]
            ELSE dout[y][i]]]

\* ------------------------------------------------------------------- state
VARIABLES
    entry,        \* entry point under execution: "horizontal" or "stretch"
    images,       \* image objects by identity
    uaf,          \* an image was accessed while not live
    hz,           \* frame of ImagingStretchHorizaontal
    mem,          \* live malloc blocks: block -> contents
    nblocks,      \* blocks handed out by malloc so far
    section,      \* the critical section: held, and the enter/leave calls of
                  \* the current horizontal call
    unprotected,  \* a destination pixel was written outside the section
    oob,          \* a coefficient access fell outside its buffer or slot
    st,           \* frame of ImagingStretch
    stages        \* stages started by ImagingStretch, in order

vars == <<entry, images, uaf, hz, mem, nblocks, section, unprotected, oob, st,
          stages>>

memVars == <<mem, nblocks>>
sectionVars == <<section, unprotected>>
stretchVars == <<entry, st, stages>>

Filters == {IMAGING_TRANSFORM_NEAREST, IMAGING_TRANSFORM_ANTIALIAS,
            IMAGING_TRANSFORM_BILINEAR, IMAGING_TRANSFORM_BICUBIC}

\* filter tags handed to the entry points
FilterTags == 0..MaxFilterTag

\* the null pointer of malloc; blocks are numbered from 1
NullBlock == 0

HIdle ==
    [pc |-> "idle", imOut |-> NULL, imIn |-> NULL, filter |-> 0,
     scale |-> RZero, filterscale |-> RZero, support |-> RZero, kmax |-> 0,
     center |-> RZero, ww |-> RZero, xmin |-> 0, xmax |-> 0,
     xx |-> 0, k |-> 0, kk |-> NullBlock, xbounds |-> NullBlock, ret |-> "none"]

HCall(out, in, f) ==
    [HIdle EXCEPT !.pc = "check_modes", !.imOut = out, !.imIn = in, !.filter = f]

SIdle ==
    [pc |-> "idle", imOut |-> NULL, imIn |-> NULL, filter |-> 0,
     xsize |-> 0, ysize |-> 0,
     imTemp1 |-> NULL, imTemp2 |-> NULL, imTemp3 |-> NULL, ret |-> "none"]

Live(id) == id # NULL /\ images[id].state = "live"

\* ----------------------------------------------- ImagingStretchHorizaontal
\* contents of freshly malloc'ed memory
Indeterminate == <<0, 0>>

NewBlock(size) == [i \in 0..(size - 1) |-> Indeterminate]

\* variant of ModeCheckFails that does not compare the modes
ModeCheckFails_IgnoresMode(out, in) == out = NULL \/ in = NULL

\* if (!imOut || !imIn || strcmp(imIn->mode, imOut->mode) != 0)
ModeCheckFails(out, in) ==
    \/ out = NULL
    \/ in = NULL
    \/ images[in].mode # images[out].mode

\* if (imOut->ysize != imIn->ysize)
HeightCheckFails(out, in) == images[out].ysize # images[in].ysize

\* switch (filter) ... default:
FilterCheckFails(f) == f \notin Filters

H_CheckModes ==
    /\ hz.pc = "check_modes"
    /\ IF ModeCheckFails(hz.imOut, hz.imIn)
       THEN hz' = [hz EXCEPT !.pc = "done", !.ret = "ModeError"]
       ELSE hz' = [hz EXCEPT !.pc = "check_heights"]
    /\ uaf' = (uaf \/ (hz.imOut # NULL /\ hz.imIn # NULL
                        /\ ~(Live(hz.imOut) /\ Live(hz.imIn))))
    /\ UNCHANGED <<images, memVars, sectionVars, oob, stretchVars>>

H_CheckHeights ==
    /\ hz.pc = "check_heights"
    /\ IF HeightCheckFails(hz.imOut, hz.imIn)
       THEN hz' = [hz EXCEPT !.pc = "done", !.ret = "ValueError"]
       ELSE hz' = [hz EXCEPT !.pc = "check_filter"]
    /\ UNCHANGED <<images, uaf, memVars, sectionVars, oob, stretchVars>>

H_CheckFilter ==
    /\ hz.pc = "check_filter"
    /\ IF FilterCheckFails(hz.filter)
       THEN hz' = [hz EXCEPT !.pc = "done", !.ret = "ValueError"]
       ELSE hz' = [hz EXCEPT !.pc = "prepare"]
    /\ UNCHANGED <<images, uaf, memVars, sectionVars, oob, stretchVars>>

\* filterscale, scale, support and kmax
H_Prepare ==
    /\ hz.pc = "prepare"
    /\ LET scale == Scale(images[hz.imIn].xsize, images[hz.imOut].xsize)
           filterscale == FilterScale(scale)
           support == Support(hz.filter, filterscale)
       IN  hz' = [hz EXCEPT !.pc = "alloc_kk", !.scale = scale,
                            !.filterscale = filterscale, !.support = support,
                            !.kmax = KMax(support)]
    /\ UNCHANGED <<images, uaf, memVars, sectionVars, oob, stretchVars>>

\* kk = malloc(imOut->xsize * kmax * sizeof(float))
H_AllocKK ==
    /\ hz.pc = "alloc_kk"
    /\ \E ok \in BOOLEAN :
          IF ok
          THEN /\ nblocks' = nblocks + 1
               /\ mem' = [b \in DOMAIN mem \cup {nblocks + 1} |->
                            IF b = nblocks + 1
                            THEN NewBlock(images[hz.imOut].xsize * hz.kmax)
                            ELSE mem[b]]
               /\ hz' = [hz EXCEPT !.pc = "alloc_xbounds", !.kk = nblocks + 1]
          ELSE /\ hz' = [hz EXCEPT !.pc = "done", !.ret = "MemoryError"]
               /\ UNCHANGED memVars
    /\ UNCHANGED <<images, uaf, sectionVars, oob, stretchVars>>

\* free(p)
Free(m, p) == [b \in DOMAIN m \ {p} |-> m[b]]

\* xbounds = malloc(imOut->xsize * 3 * sizeof(float)); on failure free(kk)
H_AllocXbounds ==
    /\ hz.pc = "alloc_xbounds"
    /\ \E ok \in BOOLEAN :
          IF ok
          THEN /\ nblocks' = nblocks + 1
               /\ mem' = [b \in DOMAIN mem \cup {nblocks + 1} |->
                            IF b = nblocks + 1
                            THEN NewBlock(images[hz.imOut].xsize * 3)
                            ELSE mem[b]]
               /\ hz' = [hz EXCEPT !.pc = "plan", !.xbounds = nblocks + 1, !.xx = 0]
          ELSE /\ mem' = Free(mem, hz.kk)
               /\ hz' = [hz EXCEPT !.pc = "done", !.ret = "MemoryError"]
               /\ UNCHANGED nblocks
    /\ UNCHANGED <<images, uaf, sectionVars, oob, stretchVars>>

\* k[x - (int) xmin] = w, for x in [xmin, xmax), with k = &kk[kbase]
StoreCoefs(buf, kbase, f, center, ss, xmin, xmax) ==
    [i \in DOMAIN buf |->
        IF i >= kbase /\ i < kbase + (xmax - xmin)
        THEN Weight(f, xmin + (i - kbase), center, ss)
        ELSE buf[i]]

\* the coefficients k[0 .. xmax - xmin) read back by the reduction
LoadCoefs(buf, kbase, f, center, ss, xmin, xmax) ==
    [j \in 0..(xmax - xmin - 1) |->
        IF (kbase + j) \in DOMAIN buf
        THEN buf[kbase + j]
        ELSE Weight(f, xmin + j, center, ss)]

\* every k[x - xmin] of one window lies in the kmax-sized slot and in the buffer
CoefAccessOk(buf, kbase, kmax, xmin, xmax) ==
    \/ xmax <= xmin
    \/ /\ xmax - xmin <= kmax
       /\ kbase >= 0
       /\ (kbase + (xmax - xmin) - 1) \in DOMAIN buf

\* one iteration of the planning loop
H_Plan ==
    /\ hz.pc = "plan"
    /\ IF hz.xx < images[hz.imOut].xsize
       THEN LET k == hz.xx * hz.kmax
                center == Center(hz.xx, hz.scale)
                ss == RInv(hz.filterscale)
                xmin == XMin(center, hz.support)
                xmax == XMax(center, hz.support, images[hz.imIn].xsize)
                ww == Norm(WeightSum(hz.filter, center, ss, xmin, xmax))
                kbuf == StoreCoefs(mem[hz.kk], k, hz.filter, center, ss, xmin, xmax)
                xbuf == [i \in DOMAIN mem[hz.xbounds] |->
                            IF i = hz.xx * 3 THEN RInt(xmin)
                            ELSE IF i = hz.xx * 3 + 1 THEN RInt(xmax)
                            ELSE IF i = hz.xx * 3 + 2 THEN ww
                            ELSE mem[hz.xbounds][i]]
            IN  /\ mem' = [mem EXCEPT ![hz.kk] = kbuf, ![hz.xbounds] = xbuf]
                /\ oob' = (oob \/ ~CoefAccessOk(mem[hz.kk], k, hz.kmax, xmin, xmax))
                /\ hz' = [hz EXCEPT !.k = k, !.center = center, !.ww = ww,
                                     !.xmin = xmin, !.xmax = xmax, !.xx = hz.xx + 1]
       ELSE /\ hz' = [hz EXCEPT !.pc = "enter"]
            /\ UNCHANGED <<mem, oob>>
    /\ UNCHANGED <<images, uaf, nblocks, sectionVars, stretchVars>>

ImagingSectionEnter(c) == [c EXCEPT !.held = TRUE, !.enters = @ + 1]
ImagingSectionLeave(c) == [c EXCEPT !.held = FALSE, !.leaves = @ + 1]

\* ImagingSectionEnter(&cookie)
H_SectionEnter ==
    /\ hz.pc = "enter"
    /\ section' = ImagingSectionEnter(section)
    /\ hz' = [hz EXCEPT !.pc = "reduce", !.xx = 0]
    /\ UNCHANGED <<images, uaf, memVars, unprotected, oob, stretchVars>>

\* variant of ReduceUnsupported that returns without leaving the section
ReduceUnsupported_NoLeave(frame, c) ==
    <<[frame EXCEPT !.pc = "done", !.ret = "ModeError"], c>>

\* default: ImagingSectionLeave(&cookie); return ImagingError_ModeError();
\* the frame and the section after it
ReduceUnsupported(frame, c) ==
    <<[frame EXCEPT !.pc = "done", !.ret = "ModeError"], ImagingSectionLeave(c)>>

\* one iteration of the reduction loop
H_Reduce ==
    /\ hz.pc = "reduce"
    /\ IF hz.xx < images[hz.imOut].xsize
       THEN LET center == Center(hz.xx, hz.scale)
                ss == RInv(hz.filterscale)
                xmin == XMin(center, hz.support)
                xmax == XMax(center, hz.support, images[hz.imIn].xsize)
                ww == Norm(WeightSum(hz.filter, center, ss, xmin, xmax))
                kbuf == StoreCoefs(mem[hz.kk], hz.k, hz.filter, center, ss, xmin, xmax)
                coef == LoadCoefs(kbuf, hz.k, hz.filter, center, ss, xmin, xmax)
                info == ModeInfo(images[hz.imIn].mode)
            IN  /\ mem' = [mem EXCEPT ![hz.kk] = kbuf]
                /\ oob' = (oob \/ ~CoefAccessOk(mem[hz.kk], hz.k, hz.kmax, xmin, xmax))
                /\ uaf' = (uaf \/ ~(Live(hz.imOut) /\ Live(hz.imIn)))
                /\ IF SupportedFormat(info)
                   THEN /\ images' = [images EXCEPT ![hz.imOut].data =
                                ReduceData(images[hz.imOut].data, images[hz.imIn].data,
                                           info, hz.xx, xmin, xmax, coef, ww)]
                        /\ unprotected' = (unprotected \/ ~section.held)
                        /\ hz' = [hz EXCEPT !.center = center, !.ww = ww,
                                             !.xmin = xmin, !.xmax = xmax,
                                             !.xx = hz.xx + 1]
                        /\ UNCHANGED section
                   ELSE /\ hz' = ReduceUnsupported(
                                     [hz EXCEPT !.center = center, !.ww = ww,
                                                !.xmin = xmin, !.xmax = xmax],
                                     section)[1]
                        /\ section' = ReduceUnsupported(hz, section)[2]
                        /\ UNCHANGED <<images, unprotected>>
       ELSE /\ hz' = [hz EXCEPT !.pc = "leave"]
            /\ UNCHANGED <<images, uaf, mem, section, unprotected, oob>>
    /\ UNCHANGED <<nblocks, stretchVars>>

\* ImagingSectionLeave(&cookie)
H_SectionLeave ==
    /\ hz.pc = "leave"
    /\ section' = ImagingSectionLeave(section)
    /\ hz' = [hz EXCEPT !.pc = "free"]
    /\ UNCHANGED <<images, uaf, memVars, unprotected, oob, stretchVars>>

\* free(kk); free(xbounds); return imOut
H_Free ==
    /\ hz.pc = "free"
    /\ mem' = Free(Free(mem, hz.kk), hz.xbounds)
    /\ hz' = [hz EXCEPT !.pc = "done", !.ret = "imOut"]
    /\ UNCHANGED <<images, uaf, nblocks, sectionVars, oob, stretchVars>>

\* ---------------------------------------------------------- ImagingStretch
\* ImagingDelete(im)
ImagingDelete(imgs, id) ==
    [imgs EXCEPT ![id].state = "released", ![id].deleted = @ + 1]

\* ImagingTranspose(imOut, imIn) accepts equal modes and swapped sizes
TransposeOk(out, in) ==
    /\ out.mode = in.mode
    /\ out.xsize = in.ysize
    /\ out.ysize = in.xsize

TransposeData(out, in) ==
    LET stride == Stride(out.mode)
    IN  [y \in 0..(out.ysize - 1) |->
            [i \in 0..(out.xsize * stride - 1) |->
                in.data[i \div stride][y * stride + (i % stride)]]]

\* variant of RejectedMode that lets 1-bit images through
RejectedMode_OnlyPalette(mode) == mode = "P"

\* if (strcmp(imIn->mode, "P") == 0 || strcmp(imIn->mode, "1") == 0)
RejectedMode(mode) == mode = "P" \/ mode = "1"

Stage(op, from, to, outcome) ==
    [op |-> op, from |-> from, to |-> to, outcome |-> outcome]

SetLast(seq, outcome) == [seq EXCEPT ![Len(seq)].outcome = outcome]

S_CheckMode ==
    /\ st.pc = "check"
    /\ IF RejectedMode(images[st.imIn].mode)
       THEN st' = [st EXCEPT !.pc = "done", !.ret = "ModeError"]
       ELSE st' = [st EXCEPT !.pc = "new1"]
    /\ UNCHANGED <<entry, images, uaf, hz, memVars, sectionVars, oob, stages>>

\* imTemp1 = ImagingNew(imIn->mode, xsize, imIn->ysize)
Temp1(frame, imgs) ==
    ImagingNew(imgs[frame.imIn].mode, frame.xsize, imgs[frame.imIn].ysize)

S_NewTemp1 ==
    /\ st.pc = "new1"
    /\ \E ok \in BOOLEAN :
          IF ok
          THEN /\ images' = [images EXCEPT !["t1"] = Temp1(st, images)]
               /\ st' = [st EXCEPT !.pc = "pass1", !.imTemp1 = "t1"]
          ELSE /\ st' = [st EXCEPT !.pc = "done", !.ret = "NULL"]
               /\ UNCHANGED images
    /\ UNCHANGED <<entry, uaf, hz, memVars, sectionVars, oob, stages>>

\* ImagingStretchHorizaontal(imTemp1, imIn, filter) is called
S_Pass1 ==
    /\ st.pc = "pass1"
    /\ hz' = HCall(st.imTemp1, st.imIn, st.filter)
    /\ section' = [section EXCEPT !.enters = 0, !.leaves = 0]
    /\ stages' = Append(stages, Stage("stretch", st.imIn, st.imTemp1, "running"))
    /\ st' = [st EXCEPT !.pc = "pass1_ret"]
    /\ UNCHANGED <<entry, images, uaf, memVars, unprotected, oob>>

\* first pass failed: ImagingDelete(imTemp1)
Pass1Failed(frame, imgs) == ImagingDelete(imgs, frame.imTemp1)

S_Pass1Ret ==
    /\ st.pc = "pass1_ret"
    /\ hz.pc = "done"
    /\ IF hz.ret # "imOut"
       THEN /\ images' = Pass1Failed(st, images)
            /\ st' = [st EXCEPT !.pc = "done", !.ret = "NULL"]
            /\ stages' = SetLast(stages, "failed")
       ELSE /\ st' = [st EXCEPT !.pc = "new2"]
            /\ stages' = SetLast(stages, "ok")
            /\ UNCHANGED images
    /\ UNCHANGED <<entry, uaf, hz, memVars, sectionVars, oob>>

\* variant of Temp2 with the size of imTemp1
Temp2_Unswapped(frame, imgs) ==
    ImagingNew(imgs[frame.imIn].mode, frame.xsize, imgs[frame.imIn].ysize)

\* imTemp2 = ImagingNew(imIn->mode, imIn->ysize, xsize)
Temp2(frame, imgs) ==
    ImagingNew(imgs[frame.imIn].mode, imgs[frame.imIn].ysize, frame.xsize)

S_NewTemp2 ==
    /\ st.pc = "new2"
    /\ \E ok \in BOOLEAN :
          IF ok
          THEN /\ images' = [images EXCEPT !["t2"] = Temp2(st, images)]
               /\ st' = [st EXCEPT !.pc = "transpose1", !.imTemp2 = "t2"]
          ELSE /\ images' = ImagingDelete(images, st.imTemp1)
               /\ st' = [st EXCEPT !.pc = "done", !.ret = "NULL"]
    /\ UNCHANGED <<entry, uaf, hz, memVars, sectionVars, oob, stages>>

\* first transpose failed: ImagingDelete(imTemp1); ImagingDelete(imTemp2)
Transpose1Failed(frame, imgs) ==
    ImagingDelete(ImagingDelete(imgs, frame.imTemp1), frame.imTemp2)

\* ImagingTranspose(imTemp2, imTemp1)
S_Transpose1 ==
    /\ st.pc = "transpose1"
    /\ uaf' = (uaf \/ ~(Live(st.imTemp1) /\ Live(st.imTemp2)))
    /\ \E ok \in BOOLEAN :
          IF ok /\ TransposeOk(images[st.imTemp2], images[st.imTemp1])
          THEN /\ images' = [images EXCEPT ![st.imTemp2].data =
                                TransposeData(images[st.imTemp2], images[st.imTemp1])]
               /\ st' = [st EXCEPT !.pc = "delete1"]
               /\ stages' = Append(stages,
                                   Stage("transpose", st.imTemp1, st.imTemp2, "ok"))
          ELSE /\ images' = Transpose1Failed(st, images)
               /\ st' = [st EXCEPT !.pc = "done", !.ret = "NULL"]
               /\ stages' = Append(stages,
                                   Stage("transpose", st.imTemp1, st.imTemp2, "failed"))
    /\ UNCHANGED <<entry, hz, memVars, sectionVars, oob>>

\* ImagingDelete(imTemp1)
S_Delete1 ==
    /\ st.pc = "delete1"
    /\ images' = ImagingDelete(images, st.imTemp1)
    /\ st' = [st EXCEPT !.pc = "new3"]
    /\ UNCHANGED <<entry, uaf, hz, memVars, sectionVars, oob, stages>>

\* imTemp3 = ImagingNew(imIn->mode, ysize, xsize)
Temp3(frame, imgs) == ImagingNew(imgs[frame.imIn].mode, frame.ysize, frame.xsize)

S_NewTemp3 ==
    /\ st.pc = "new3"
    /\ \E ok \in BOOLEAN :
          IF ok
          THEN /\ images' = [images EXCEPT !["t3"] = Temp3(st, images)]
               /\ st' = [st EXCEPT !.pc = "pass2", !.imTemp3 = "t3"]
          ELSE /\ images' = ImagingDelete(images, st.imTemp2)
               /\ st' = [st EXCEPT !.pc = "done", !.ret = "NULL"]
    /\ UNCHANGED <<entry, uaf, hz, memVars, sectionVars, oob, stages>>

\* ImagingStretchHorizaontal(imTemp3, imTemp2, filter) is called
S_Pass2 ==
    /\ st.pc = "pass2"
    /\ hz' = HCall(st.imTemp3, st.imTemp2, st.filter)
    /\ section' = [section EXCEPT !.enters = 0, !.leaves = 0]
    /\ stages' = Append(stages, Stage("stretch", st.imTemp2, st.imTemp3, "running"))
    /\ st' = [st EXCEPT !.pc = "pass2_ret"]
    /\ UNCHANGED <<entry, images, uaf, memVars, unprotected, oob>>

\* variant of Pass2Failed that forgets imTemp3
Pass2Failed_KeepTemp3(frame, imgs) == ImagingDelete(imgs, frame.imTemp2)

\* second pass failed: ImagingDelete(imTemp2); ImagingDelete(imTemp3)
Pass2Failed(frame, imgs) ==
    ImagingDelete(ImagingDelete(imgs, frame.imTemp2), frame.imTemp3)

S_Pass2Ret ==
    /\ st.pc = "pass2_ret"
    /\ hz.pc = "done"
    /\ IF hz.ret # "imOut"
       THEN /\ images' = Pass2Failed(st, images)
            /\ st' = [st EXCEPT !.pc = "done", !.ret = "NULL"]
            /\ stages' = SetLast(stages, "failed")
       ELSE /\ st' = [st EXCEPT !.pc = "delete2"]
            /\ stages' = SetLast(stages, "ok")
            /\ UNCHANGED images
    /\ UNCHANGED <<entry, uaf, hz, memVars, sectionVars, oob>>

\* ImagingDelete(imTemp2)
S_Delete2 ==
    /\ st.pc = "delete2"
    /\ images' = ImagingDelete(images, st.imTemp2)
    /\ st' = [st EXCEPT !.pc = "transpose2"]
    /\ UNCHANGED <<entry, uaf, hz, memVars, sectionVars, oob, stages>>

\* ImagingTranspose(imOut, imTemp3); on failure ImagingDelete(imTemp3)
S_Transpose2 ==
    /\ st.pc = "transpose2"
    /\ uaf' = (uaf \/ ~(Live(st.imTemp3) /\ Live(st.imOut)))
    /\ \E ok \in BOOLEAN :
          IF ok /\ TransposeOk(images[st.imOut], images[st.imTemp3])
          THEN /\ images' = [images EXCEPT ![st.imOut].data =
                                TransposeData(images[st.imOut], images[st.imTemp3])]
               /\ st' = [st EXCEPT !.pc = "delete3"]
               /\ stages' = Append(stages,
                                   Stage("transpose", st.imTemp3, st.imOut, "ok"))
          ELSE /\ images' = ImagingDelete(images, st.imTemp3)
               /\ st' = [st EXCEPT !.pc = "done", !.ret = "NULL"]
               /\ stages' = Append(stages,
                                   Stage("transpose", st.imTemp3, st.imOut, "failed"))
    /\ UNCHANGED <<entry, hz, memVars, sectionVars, oob>>

\* ImagingDelete(imTemp3); return imOut
S_Delete3 ==
    /\ st.pc = "delete3"
    /\ images' = ImagingDelete(images, st.imTemp3)
    /\ st' = [st EXCEPT !.pc = "done", !.ret = "imOut"]
    /\ UNCHANGED <<entry, uaf, hz, memVars, sectionVars, oob, stages>>

\* ------------------------------------------------------------ specification
DstModes(m) == {m, IF m = "L" THEN "RGB" ELSE "L"}

InitCommon ==
    /\ uaf = FALSE
    /\ mem = <<>>
    /\ nblocks = 0
    /\ section = [held |-> FALSE, enters |-> 0, leaves |-> 0]
    /\ unprotected = FALSE
    /\ oob = FALSE
    /\ stages = <<>>

\* a direct call ImagingStretchHorizaontal(imOut, imIn, filter)
InitHorizontal ==
    /\ entry = "horizontal"
    /\ \E m \in Modes, w \in 1..MaxLen, h \in 1..MaxRows, p \in Patterns,
          w2 \in 1..MaxLen, h2 \in 1..(MaxRows + 1) :
          \E m2 \in DstModes(m) :
             images = [id \in ImgIds |->
                         IF id = "src"
                         THEN MakeImage(m, w, h, p)
                         ELSE IF id = "dst" THEN MakeImage(m2, w2, h2, "dst")
                         ELSE NoImage]
    /\ \E o \in {"dst", NULL}, i \in {"src", NULL}, f \in FilterTags :
          hz = HCall(o, i, f)
    /\ st = SIdle

\* a call ImagingStretch(imOut, imIn, filter)
InitStretch ==
    /\ entry = "stretch"
    /\ \E m \in Modes, w \in 1..MaxDim, h \in 1..MaxDim,
          w2 \in 1..MaxDim, h2 \in 1..MaxDim :
          \E m2 \in DstModes(m) :
             images = [id \in ImgIds |->
                         IF id = "src"
                         THEN MakeImage(m, w, h, "ramp")
                         ELSE IF id = "dst" THEN MakeImage(m2, w2, h2, "dst")
                         ELSE NoImage]
    /\ hz = HIdle
    /\ \E f \in FilterTags :
          st = [SIdle EXCEPT !.pc = "check", !.imOut = "dst", !.imIn = "src",
                             !.filter = f,
                             !.xsize = images["dst"].xsize,
                             !.ysize = images["dst"].ysize]

\* ImagingStretch, with the horizontal passes it calls
Init == InitCommon /\ InitStretch

Next ==
    \/ H_CheckModes
    \/ H_CheckHeights
    \/ H_CheckFilter
    \/ H_Prepare
    \/ H_AllocKK
    \/ H_AllocXbounds
    \/ H_Plan
    \/ H_SectionEnter
    \/ H_Reduce
    \/ H_SectionLeave
    \/ H_Free
    \/ S_CheckMode
    \/ S_NewTemp1
    \/ S_Pass1
    \/ S_Pass1Ret
    \/ S_NewTemp2
    \/ S_Transpose1
    \/ S_Delete1
    \/ S_NewTemp3
    \/ S_Pass2
    \/ S_Pass2Ret
    \/ S_Delete2
    \/ S_Transpose2
    \/ S_Delete3

Spec == Init /\ [][Next]_vars

\* ImagingStretchHorizaontal called directly
InitH == InitCommon /\ InitHorizontal

NextH ==
    \/ H_CheckModes
    \/ H_CheckHeights
    \/ H_CheckFilter
    \/ H_Prepare
    \/ H_AllocKK
    \/ H_AllocXbounds
    \/ H_Plan
    \/ H_SectionEnter
    \/ H_Reduce
    \/ H_SectionLeave
    \/ H_Free

SpecH == InitH /\ [][NextH]_vars

\* ------------------------------------------------------------------ claims
LiveTemps == {t \in TempIds : images[t].state = "live"}

\* C1: in ImagingStretch, whichever stage fails, every intermediate image
\* allocated so far has been released exactly once when the failure is
\* returned; on success all three have been released exactly once; none is
\* released twice or used after its release.
C1_IntermediatesReleasedOnce ==
    /\ ~uaf
    /\ \A t \in TempIds :
          /\ images[t].deleted <= 1
          /\ images[t].state = "none" => images[t].deleted = 0
    /\ st.pc = "done" =>
          \A t \in TempIds :
             /\ images[t].state # "live"
             /\ images[t].state = "released" => images[t].deleted = 1
    /\ (st.pc = "done" /\ st.ret = "imOut") =>
          \A t \in TempIds : images[t].deleted = 1

\* the second horizontal pass failed and both live intermediates were released
C1_Witness ==
    /\ st.pc = "done"
    /\ st.ret = "NULL"
    /\ Len(stages) = 3
    /\ stages[3].outcome = "failed"
    /\ \A t \in TempIds : images[t].state = "released" /\ images[t].deleted = 1

ExpectedStages ==
    <<Stage("stretch", "src", "t1", "ok"), Stage("transpose", "t1", "t2", "ok"),
      Stage("stretch", "t2", "t3", "ok"), Stage("transpose", "t3", "dst", "ok")>>

\* C9: a successful ImagingStretch runs, in this order, horizontal source ->
\* temp1 (W_out x H_in), transpose temp1 -> temp2 (H_in x W_out), horizontal
\* temp2 -> temp3 (H_out x W_out), transpose temp3 -> destination; every
\* intermediate has the source's mode, both horizontal passes meet the
\* equal-mode and equal-height preconditions, no stage starts after a failed
\* one, temp1 is released before temp3 is allocated and at most two
\* intermediates are live at any time.
C9_TwoPassOrder ==
    /\ Len(stages) <= 4
    /\ \A i \in 1..Len(stages) :
          /\ stages[i].op = ExpectedStages[i].op
          /\ stages[i].from = ExpectedStages[i].from
          /\ stages[i].to = ExpectedStages[i].to
          /\ i < Len(stages) => stages[i].outcome = "ok"
    /\ st.ret = "imOut" => stages = ExpectedStages
    /\ st.ret \in {"NULL", "ModeError"} => st.pc = "done"
    /\ images["t1"].state # "none" =>
          /\ images["t1"].mode = images["src"].mode
          /\ images["t1"].xsize = images["dst"].xsize
          /\ images["t1"].ysize = images["src"].ysize
    /\ images["t2"].state # "none" =>
          /\ images["t2"].mode = images["src"].mode
          /\ images["t2"].xsize = images["src"].ysize
          /\ images["t2"].ysize = images["dst"].xsize
    /\ images["t3"].state # "none" =>
          /\ images["t3"].mode = images["src"].mode
          /\ images["t3"].xsize = images["dst"].ysize
          /\ images["t3"].ysize = images["dst"].xsize
          /\ images["t1"].state = "released"
    /\ hz.pc # "idle" =>
          /\ images[hz.imIn].mode = images[hz.imOut].mode
          /\ images[hz.imIn].ysize = images[hz.imOut].ysize
          /\ hz.pc = "done" => hz.ret \in {"imOut", "ValueError", "MemoryError",
                                           "ModeError"}
    /\ Cardinality(LiveTemps) <= 2

\* a successful resize that changes both the width and the height
C9_Witness ==
    /\ st.pc = "done"
    /\ st.ret = "imOut"
    /\ stages = ExpectedStages
    /\ images["src"].xsize # images["dst"].xsize
    /\ images["src"].ysize # images["dst"].ysize
    /\ images["src"].ysize # images["dst"].xsize

\* C5: ImagingStretch of a "P" or "1" source returns a mode error without
\* allocating an intermediate image, without calling the horizontal resample
\* or the transpose, and without writing to the destination.
C5_PaletteAndBilevelRejected ==
    images["src"].mode \in {"P", "1"} =>
        /\ st.pc = "done" => st.ret = "ModeError"
        /\ \A t \in TempIds : images[t].state = "none"
        /\ stages = <<>>
        /\ hz.pc = "idle"
        /\ nblocks = 0
        /\ images["dst"].data =
              MakeData(images["dst"].mode, images["dst"].xsize,
                       images["dst"].ysize, "dst")

\* a 1-bit source was rejected
C5_Witness ==
    /\ images["src"].mode = "1"
    /\ st.pc = "done"
    /\ st.ret = "ModeError"

\* a window has been computed into the frame's xmin and xmax
WindowComputed == hz.xbounds # NullBlock /\ ~(hz.pc = "plan" /\ hz.xx = 0)

\* destination indices whose window the planning loop has stored in xbounds
Planned ==
    IF hz.xbounds = NullBlock \/ hz.xbounds \notin DOMAIN mem THEN {}
    ELSE IF hz.pc = "plan" THEN 0..(hz.xx - 1)
    ELSE 0..(images[hz.imOut].xsize - 1)

\* C2: for every filter, source length and destination length >= 1, the
\* window of every destination index satisfies 0 <= xmin <= xmax <=
\* source length, in the planning loop and in the reduction loop.
C2_WindowInRange ==
    /\ WindowComputed =>
          /\ 0 <= hz.xmin
          /\ hz.xmin <= hz.xmax
          /\ hz.xmax <= images[hz.imIn].xsize
    /\ \A xx \in Planned :
          LET lo == mem[hz.xbounds][xx * 3]
              hi == mem[hz.xbounds][xx * 3 + 1]
          IN  /\ RLe(RZero, lo)
              /\ RLe(lo, hi)
              /\ RLe(hi, RInt(images[hz.imIn].xsize))

\* the reduction loop computed a window cut at both ends of the source row
C2_Witness ==
    /\ hz.pc = "reduce"
    /\ hz.xx > 0
    /\ hz.filter = IMAGING_TRANSFORM_ANTIALIAS
    /\ hz.xmin = 0
    /\ hz.xmax = images[hz.imIn].xsize
    /\ RLt(RSub(hz.center, hz.support), RZero)
    /\ RLt(RInt(images[hz.imIn].xsize), RAdd(hz.center, hz.support))

\* C10: every window has at most kmax = 2 * ceil(support) + 1 entries, so
\* every planning write k[x - xmin] stays in the kmax-sized slot of its
\* destination index, and every coefficient access of the reduction loop,
\* which uses the slot of the last destination index, stays in the buffer.
C10_CoefficientsInBounds ==
    /\ ~oob
    /\ hz.kk # NullBlock => hz.kmax = 2 * RCeil(hz.support) + 1
    /\ WindowComputed => hz.xmax - hz.xmin <= hz.kmax
    /\ (hz.pc = "plan" /\ hz.xx > 0) =>
          /\ hz.k = (hz.xx - 1) * hz.kmax
          /\ hz.k + (hz.xmax - hz.xmin) <= hz.xx * hz.kmax
    /\ hz.pc = "reduce" =>
          /\ hz.k = (images[hz.imOut].xsize - 1) * hz.kmax
          /\ hz.k + (hz.xmax - hz.xmin) <= Cardinality(DOMAIN mem[hz.kk])
          /\ Cardinality(DOMAIN mem[hz.kk]) = images[hz.imOut].xsize * hz.kmax

\* the reduction loop used a window that fills all kmax coefficients
C10_Witness ==
    /\ hz.pc = "reduce"
    /\ hz.xx > 0
    /\ hz.xmax - hz.xmin = hz.kmax
    /\ ~oob

Untouched ==
    /\ nblocks = 0
    /\ section.enters = 0
    /\ ~section.held
    /\ hz.imOut # NULL =>
          images[hz.imOut].data =
             MakeData(images[hz.imOut].mode, images[hz.imOut].xsize,
                      images[hz.imOut].ysize, "dst")

\* C4: ImagingStretchHorizaontal fails with a mode error when an image is
\* missing or the modes differ, else with a value error when the heights
\* differ, else with a value error when the filter tag is none of the four
\* filters; in each case before any scratch allocation, outside the critical
\* section and with every destination pixel unchanged.
C4_PreconditionFailures ==
    hz.pc = "done" =>
        LET missing == hz.imOut = NULL \/ hz.imIn = NULL
            modes == ~missing /\ images[hz.imIn].mode # images[hz.imOut].mode
            heights == ~missing /\ images[hz.imIn].ysize # images[hz.imOut].ysize
            tag == hz.filter \notin {IMAGING_TRANSFORM_NEAREST,
                                     IMAGING_TRANSFORM_ANTIALIAS,
                                     IMAGING_TRANSFORM_BILINEAR,
                                     IMAGING_TRANSFORM_BICUBIC}
        IN  /\ (missing \/ modes) => (hz.ret = "ModeError" /\ Untouched)
            /\ (~missing /\ ~modes /\ heights) =>
                  (hz.ret = "ValueError" /\ Untouched)
            /\ (~missing /\ ~modes /\ ~heights /\ tag) =>
                  (hz.ret = "ValueError" /\ Untouched)

\* a call with matching images and an unknown filter tag has returned
C4_Witness ==
    /\ hz.pc = "done"
    /\ hz.imOut # NULL
    /\ hz.imIn # NULL
    /\ images[hz.imIn].mode = images[hz.imOut].mode
    /\ images[hz.imIn].ysize = images[hz.imOut].ysize
    /\ hz.filter \notin Filters
    /\ hz.ret = "ValueError"

\* C8: the critical section is entered at most once per call, only after
\* the precondition checks and both scratch allocations succeeded, and left
\* exactly once on every path that entered it before the call returns;
\* every destination pixel is written while it is held.
C8_SectionPaired ==
    /\ section.enters <= 1
    /\ section.leaves <= section.enters
    /\ section.held <=> (section.enters = 1 /\ section.leaves = 0)
    /\ section.held => hz.pc \in {"reduce", "leave"}
    /\ section.enters = 1 =>
          /\ hz.imOut # NULL /\ hz.imIn # NULL
          /\ images[hz.imIn].mode = images[hz.imOut].mode
          /\ images[hz.imIn].ysize = images[hz.imOut].ysize
          /\ hz.filter \in Filters
          /\ hz.kk # NullBlock /\ hz.xbounds # NullBlock
    /\ hz.pc = "done" =>
          /\ ~section.held
          /\ section.leaves = section.enters
          /\ hz.ret = "imOut" => section.enters = 1
    /\ ~unprotected

\* the unsupported-format return happened with the section entered and left
C8_Witness ==
    /\ hz.pc = "done"
    /\ hz.ret = "ModeError"
    /\ section.enters = 1
    /\ section.leaves = 1
    /\ ~section.held

\* C7: every return of ImagingStretchHorizaontal made after its scratch
\* buffers were allocated has freed every scratch buffer of that call.
C7_ScratchFreedOnReturn == hz.pc = "done" => DOMAIN mem = {}

FlatSource ==
    \A y \in DOMAIN images["src"].data :
       \A i \in DOMAIN images["src"].data[y] :
          images["src"].data[y][i] = RInt(FlatValue)

\* storage cells of destination pixel xx written by the reduction
WrittenCells(mode, xx) ==
    IF ModeInfo(mode).image8 THEN {xx}
    ELSE IF ModeInfo(mode).type = IMAGING_TYPE_UINT8
    THEN {xx * 4 + b : b \in Lanes(ModeInfo(mode).bands)}
    ELSE {xx}

\* C3: flat-field preservation: for every filter and every supported pixel
\* format (8-bit, 32-bit integer, 32-bit float) a source row whose pixels all
\* equal c resamples to c at every destination position with a non-empty
\* window.
C3_FlatField ==
    (hz.pc = "done" /\ hz.ret = "imOut" /\ hz.imIn = "src" /\ FlatSource) =>
        \A y \in DOMAIN images[hz.imOut].data :
           \A xx \in 0..(images[hz.imOut].xsize - 1) :
              LET center == Center(xx, hz.scale)
                  xmin == XMin(center, hz.support)
                  xmax == XMax(center, hz.support, images["src"].xsize)
              IN  xmin < xmax =>
                     \A i \in WrittenCells(images[hz.imOut].mode, xx) :
                        images[hz.imOut].data[y][i] = RInt(FlatValue)

RampRow8 == [i \in 0..7 |-> RInt(10 * (i + 1))]

\* the 8 -> 4 Bilinear resample of the 8-bit row 10, 20, ..., 80 has returned
C6_Case ==
    /\ hz.pc = "done"
    /\ hz.ret = "imOut"
    /\ hz.imIn = "src"
    /\ hz.imOut = "dst"
    /\ hz.filter = IMAGING_TRANSFORM_BILINEAR
    /\ images["src"].mode = "L"
    /\ images["src"].ysize = 1
    /\ images["src"].xsize = 8
    /\ images["src"].data[0] = RampRow8
    /\ images["dst"].xsize = 4

\* C6 as stated: the result is [15, 35, 55, 75]
C6_Original ==
    C6_Case =>
        images["dst"].data[0] =
           [i \in 0..3 |-> RInt(CHOOSE v \in {15, 35, 55, 75} : v = 15 + 20 * i)]

\* C6 (amended): the 8 -> 4 Bilinear resample of the 8-bit row
\* [10,20,30,40,50,60,70,80] yields [17,35,55,73]: with scale = filterscale =
\* 2 the tent kernel spans the window [2i-1, 2i+3) cut to the row, so the two
\* interior outputs are weighted averages of four source pixels and the two
\* end outputs renormalised averages of three, rounded half up.
C6_BilinearHalving ==
    C6_Case =>
        /\ images["dst"].data[0] =
              [i \in 0..3 |-> RInt(CHOOSE v \in {17, 35, 55, 73} :
                                      v = IF i = 0 THEN 17 ELSE IF i = 3 THEN 73
                                          ELSE 15 + 20 * i)]
        /\ hz.scale = RInt(2)
        /\ hz.filterscale = RInt(2)
        /\ \A i \in 0..3 :
              /\ XMin(Center(i, hz.scale), hz.support) = (IF i = 0 THEN 0 ELSE 2 * i - 1)
              /\ XMax(Center(i, hz.scale), hz.support, 8)
                    = (IF i = 3 THEN 8 ELSE 2 * i + 3)

C6_Witness == C6_Case

====
